---- MODULE Spec2Model ----
(***************************************************************************)
(* code-sheriff: the FastAPI application of app/api_handler.py behind its  *)
(* two middlewares of app/middlewares.py.  A request enters                *)
(* RequestLoggingMiddleware (added last, so outermost), then               *)
(* RateLimitingMiddleware, then the router (health_check or review).       *)
(* Every piece of code between two awaits runs atomically on the event     *)
(* loop, so each action below is one such piece.                           *)
(* Time is counted in whole seconds since the epoch.                       *)
(***************************************************************************)
EXTENDS Integers, Sequences, FiniteSets, TLC

\* ---------------------------------------------------------------- bounds
MaxRequests == 3        \* requests of one sequential run
MaxTicks == 4           \* seconds the clock may advance during one run
StartClock == 58        \* epoch second at which the run starts
MaxLimit == 2           \* largest settings.rate_limit_requests tried
MaxDuration == 2        \* largest settings.rate_limit_duration_in_seconds tried
MaxComments == 2        \* longest array the model's reply is drawn from
MaxFiles == 11          \* longest files list get_pr_files returns

\* ------------------------------------------------------ program constants
SecondsPerMinute == 60  \* timedelta(minutes=1), replace(second=0)
HTTP_200_OK == 200
HTTP_422_UNPROCESSABLE_ENTITY == 422
HTTP_429_TOO_MANY_REQUESTS == 429
HTTP_500_INTERNAL_SERVER_ERROR == 500
FILES_LIMIT == 10       \* summarize_files(files, limit=10)
PATCH_LIMIT == 3000     \* f.get("patch", "")[:3000]

Hosts == {"10.0.0.1", "10.0.0.2"}
NoHost == ""            \* request.client is None
Routes == {"/health", "/webhooks/github"}
NoHeader == "(none)"    \* the request carries no x-github-event header
Events == {"pull_request", "push", NoHeader}
Actions == {"opened", "synchronize", "closed", "edited"}
\* request.json(): a body GitHubRequest accepts, with its payload.action, or
\* one it does not accept
Bodies == [valid : {TRUE}, action : Actions] \cup {[valid |-> FALSE, action |-> ""]}
Req == 1..MaxRequests
Places == {1, 2}        \* the places of the requests that are open concurrently

\* datetime.min: further in the past than any window the run can span
DatetimeMin == 0 - (StartClock + MaxTicks + MaxDuration + 1)

\* --------------------------------------------- values the dispatcher handles
\* The exceptions an upstream call may raise: a transport error, a timeout,
\* or raise_for_status() on the status the upstream answered
NoFailure == [exc |-> "", status |-> 0]
Failures == {[exc |-> "ConnectError", status |-> 0],
             [exc |-> "ReadTimeout", status |-> 0],
             [exc |-> "HTTPStatusError", status |-> 404],
             [exc |-> "HTTPStatusError", status |-> 503]}

\* httpx.HTTPError and its subclasses, TransportError among them
HTTPError == {"ConnectError", "ReadTimeout", "HTTPStatusError"}

\* uuid.uuid4(): a UUID is given by its 32 hexadecimal digits
Uuids == {[i \in 1..32 |-> "4"], [i \in 1..32 |-> "a"]}
NoId == << >>

\* str(UUID), as jsonable_encoder writes it: the digits in groups of
\* 8-4-4-4-12 joined by hyphens
UuidStr(u) ==
    SubSeq(u, 1, 8) \o <<"-">> \o SubSeq(u, 9, 12) \o <<"-">>
        \o SubSeq(u, 13, 16) \o <<"-">> \o SubSeq(u, 17, 20) \o <<"-">>
        \o SubSeq(u, 21, 32)

\* A str value taken from a longer text: the len characters of the text `of`
\* that start at offset `from`
EmptyStr == [of |-> 0, from |-> 0, len |-> 0]
Text(of, len) == IF len = 0 THEN EmptyStr ELSE [of |-> of, from |-> 0, len |-> len]

\* s[:n]
Prefix(s, n) ==
    IF n = 0 THEN EmptyStr ELSE IF s.len <= n THEN s ELSE [s EXCEPT !.len = n]

\* One entry of the files list GitHub returns: without a patch, or with a
\* patch that is empty, just under, at, or just over the cap
PatchLens == <<0, 0, PATCH_LIMIT - 1, PATCH_LIMIT, PATCH_LIMIT + 1>>
File(filename, k) ==
    [filename |-> filename, has_patch |-> k # 1,
     patch |-> IF k = 1 THEN EmptyStr ELSE Text(filename, PatchLens[k])]

\* The files lists tried: up to MaxFiles files, every kind of patch at every
\* position
FileLists ==
    {[i \in 1..n |-> File(i, ((i + k) % Len(PatchLens)) + 1)] :
        n \in 0..MaxFiles, k \in 1..Len(PatchLens)}
OneFile == {<<File(1, 3)>>}

\* The entries of the array in the model's reply: a value that is no object,
\* or an object given by its keys
required_keys == {"path", "line", "body"}
KeySets == {required_keys, required_keys \cup {"side"}, {"side"}}
               \cup {required_keys \ {k} : k \in required_keys}
Entries == {[is_dict |-> FALSE, keys |-> {}]} \cup [is_dict : {TRUE}, keys : KeySets]
Arrays == UNION {[1..n -> Entries] : n \in 0..MaxComments}
Comment == [is_dict |-> TRUE, keys |-> required_keys]
FewArrays == {<< >>, <<Comment>>, <<[is_dict |-> TRUE, keys |-> {"side"}], Comment>>}

\* The text of the model's reply, cut into pieces: a marker that opens a
\* json block, a plain block marker (three backquotes), a JSON array, the JSON value null, or any other prose
Piece(kind) == [kind |-> kind, array |-> << >>]
JsonArray(array) == [kind |-> "array", array |-> array]
Fences == {"fence_json", "fence"}
Blocks(arrays) == {JsonArray(a) : a \in arrays} \cup {Piece("null"), Piece("prose")}
Texts(arrays) ==
    UNION {{<<b>>,
            <<Piece("fence_json"), b, Piece("fence")>>,
            <<Piece("fence"), b, Piece("fence")>>,
            <<Piece("prose"), Piece("fence_json"), b, Piece("fence"), Piece("prose")>>} :
           b \in Blocks(arrays)}

\* The commit SHAs get_pr_head_sha may return
Shas == {"abc123", "def456"}

\* The review that was not posted
NoReview == [commit_id |-> "", body |-> [text |-> "", count |-> 0], event |-> "",
             has_comments |-> FALSE, comments |-> << >>]

VARIABLES
    settings,   \* app.settings, fixed at process start
    clients,    \* middlewares.clients: client_ip -> {request_count, last_request}
    clock,      \* what datetime.now() returns
    reqs,       \* the open requests, each with its position, locals and response
    admit_log   \* history: per client, the times of its latest admissions

vars == <<settings, clients, clock, reqs, admit_log>>

NoHeaders == [limit |-> 0, remaining |-> 0, reset |-> 0]
NoClient == [request_count |-> 0, last_request |-> DatetimeMin]

\* A free place.  checked: _check_rate_limit ran for the request; seen: the
\* entry it read; checked_at: its first datetime.now(); stamped: the entry
\* it left; called_next: call_next(request) was invoked.
Idle == [pc |-> "idle", host |-> NoHost, route |-> "",
         checked |-> FALSE, checked_at |-> 0, seen |-> NoClient,
         stamped |-> NoClient, called_next |-> FALSE,
         x_github_event |-> "", body |-> [valid |-> FALSE, action |-> ""],
         calls |-> <<>>, failure |-> NoFailure, files |-> <<>>,
         files_summary |-> <<>>, commit_sha |-> "", response_text |-> <<>>,
         comments |-> <<>>, review_data |-> NoReview, id |-> NoId,
         status |-> 0, message |-> "", comments_count |-> 0,
         rate_headers |-> FALSE, headers |-> NoHeaders, process_time |-> FALSE]

\* --------------------------------------------------------- rate limiter
\* RateLimitingMiddleware.RATE_LIMIT_DURATION, in seconds
RATE_LIMIT_DURATION == settings.rate_limit_duration_in_seconds

\* clients.get(client_ip, {"request_count": 0, "last_request": datetime.min})
GetClient(client_ip) ==
    IF client_ip \in DOMAIN clients THEN clients[client_ip] ELSE NoClient

\* The entry of client_ip in the map m, as clients.get reads it
Entry(m, client_ip) == IF client_ip \in DOMAIN m THEN m[client_ip] ELSE NoClient

\* A variant of the store that keeps one counter for all clients.
Put_shared(m, client_ip, request_count, last_request) ==
    [h \in DOMAIN m \cup {client_ip} |->
        [request_count |-> request_count, last_request |-> last_request]]

\* The map m with the entry of client_ip set (clients[client_ip] = client)
Put(m, client_ip, request_count, last_request) ==
    (client_ip :> [request_count |-> request_count,
                   last_request |-> last_request]) @@ m

\* Variants of _check_rate_limit, each with one slip.
\* The limit compared with > : one request too many is admitted.
check_rate_limit_gt(client_ip, now1, now2) ==
    LET client == GetClient(client_ip)
    IN IF now1 - client.last_request > RATE_LIMIT_DURATION
       THEN [limited |-> FALSE, clients |-> Put(clients, client_ip, 1, now2)]
       ELSE IF client.request_count > settings.rate_limit_requests
            THEN [limited |-> TRUE, clients |-> clients]
            ELSE [limited |-> FALSE,
                  clients |-> Put(clients, client_ip, client.request_count + 1, now2)]

\* The limit compared after counting the request: the last slot is refused.
check_rate_limit_early(client_ip, now1, now2) ==
    LET client == GetClient(client_ip)
    IN IF now1 - client.last_request > RATE_LIMIT_DURATION
       THEN [limited |-> FALSE, clients |-> Put(clients, client_ip, 1, now2)]
       ELSE IF client.request_count + 1 >= settings.rate_limit_requests
            THEN [limited |-> TRUE, clients |-> clients]
            ELSE [limited |-> FALSE,
                  clients |-> Put(clients, client_ip, client.request_count + 1, now2)]

\* The window compared with >= : a reset already after exactly the duration.
check_rate_limit_ge(client_ip, now1, now2) ==
    LET client == GetClient(client_ip)
    IN IF now1 - client.last_request >= RATE_LIMIT_DURATION
       THEN [limited |-> FALSE, clients |-> Put(clients, client_ip, 1, now2)]
       ELSE IF client.request_count >= settings.rate_limit_requests
            THEN [limited |-> TRUE, clients |-> clients]
            ELSE [limited |-> FALSE,
                  clients |-> Put(clients, client_ip, client.request_count + 1, now2)]

\* The request counted before the limit is compared: rejections count too.
check_rate_limit_counts_rejected(client_ip, now1, now2) ==
    LET client == GetClient(client_ip)
    IN IF now1 - client.last_request > RATE_LIMIT_DURATION
       THEN [limited |-> FALSE, clients |-> Put(clients, client_ip, 1, now2)]
       ELSE IF client.request_count >= settings.rate_limit_requests
            THEN [limited |-> TRUE,
                  clients |-> Put(clients, client_ip, client.request_count + 1,
                                  client.last_request)]
            ELSE [limited |-> FALSE,
                  clients |-> Put(clients, client_ip, client.request_count + 1, now2)]

\* last_request stamped before the limit is compared: rejections stamp too.
check_rate_limit_stamps_rejected(client_ip, now1, now2) ==
    LET client == GetClient(client_ip)
    IN IF now1 - client.last_request > RATE_LIMIT_DURATION
       THEN [limited |-> FALSE, clients |-> Put(clients, client_ip, 1, now2)]
       ELSE IF client.request_count >= settings.rate_limit_requests
            THEN [limited |-> TRUE,
                  clients |-> Put(clients, client_ip, client.request_count, now1)]
            ELSE [limited |-> FALSE,
                  clients |-> Put(clients, client_ip, client.request_count + 1, now2)]

\* last_request kept as the start of the window: stamped only by a reset.
check_rate_limit_fixed_window(client_ip, now1, now2) ==
    LET client == GetClient(client_ip)
    IN IF now1 - client.last_request > RATE_LIMIT_DURATION
       THEN [limited |-> FALSE, clients |-> Put(clients, client_ip, 1, now2)]
       ELSE IF client.request_count >= settings.rate_limit_requests
            THEN [limited |-> TRUE, clients |-> clients]
            ELSE [limited |-> FALSE,
                  clients |-> Put(clients, client_ip, client.request_count + 1,
                                  client.last_request)]

\* The entry dropped when the request is rejected.
check_rate_limit_forgets_rejected(client_ip, now1, now2) ==
    LET client == GetClient(client_ip)
    IN IF now1 - client.last_request > RATE_LIMIT_DURATION
       THEN [limited |-> FALSE, clients |-> Put(clients, client_ip, 1, now2)]
       ELSE IF client.request_count >= settings.rate_limit_requests
            THEN [limited |-> TRUE,
                  clients |-> [h \in DOMAIN clients \ {client_ip} |-> clients[h]]]
            ELSE [limited |-> FALSE,
                  clients |-> Put(clients, client_ip, client.request_count + 1, now2)]

\* _check_rate_limit for client_ip; now1 is datetime.now() of line 42, now2
\* the one of line 56.  limited: the 429 response is returned, and then the
\* entry is neither changed nor stored; clients: the map the call leaves.
check_rate_limit(client_ip, now1, now2) ==
    LET client == GetClient(client_ip)
    IN IF now1 - client.last_request > RATE_LIMIT_DURATION
       THEN [limited |-> FALSE, clients |-> Put(clients, client_ip, 1, now2)]
       ELSE IF client.request_count >= settings.rate_limit_requests
            THEN [limited |-> TRUE, clients |-> clients]
            ELSE [limited |-> FALSE,
                  clients |-> Put(clients, client_ip, client.request_count + 1, now2)]

\* last_request.replace(second=0, microsecond=0) + timedelta(minutes=1)
NextMinute(t) == (t \div SecondsPerMinute) * SecondsPerMinute + SecondsPerMinute

\* _get_rate_limit_headers (the values before str())
get_rate_limit_headers(client) ==
    [limit |-> settings.rate_limit_requests,
     remaining |-> settings.rate_limit_requests - client.request_count,
     reset |-> NextMinute(client.last_request)]

\* ------------------------------------------------------------- requests
Set(r, rec) == reqs' = [reqs EXCEPT ![r] = rec]

\* The admissions of the log that an interval of MaxDuration seconds ending
\* at or after `now` can still hold, followed by the one made at `now`.
Logged(log, now) ==
    Append(SelectSeq(log, LAMBDA t : t >= now - MaxDuration), now)

\* RequestLoggingMiddleware.dispatch up to call_next: a request from one of
\* `hosts` for one of `routes` arrives and takes the free place r.
Arrive(r, hosts, routes) ==
    /\ reqs[r].pc = "idle"
    /\ \E host \in hosts, route \in routes :
          Set(r, [reqs[r] EXCEPT !.pc = "rate_limiting",
                                 !.host = host, !.route = route])
    /\ UNCHANGED <<settings, clients, clock, admit_log>>

\* Requests to /health arriving while others are open (the lowest free
\* place is taken).
RequestLoggingDispatch(r) ==
    /\ r \in Places
    /\ \A q \in Req : q < r => reqs[q].pc # "idle"
    /\ Arrive(r, {"10.0.0.1", NoHost}, {"/health"})

\* The response has been sent: the request and its locals are gone.
Close(r) ==
    /\ reqs[r].pc = "done"
    /\ Set(r, Idle)
    /\ UNCHANGED <<settings, clients, clock, admit_log>>

\* One client sending its requests one after the other, each after the
\* response to the previous one; the responses are kept.
SeqRequestLoggingDispatch(r) ==
    /\ \A q \in Req : q < r => reqs[q].pc = "done"
    /\ Arrive(r, {"10.0.0.1"}, {"/health"})

\* Requests of two clients to /health in any order, one at a time.
TwoClientsRequestLoggingDispatch(r) ==
    /\ r = 1
    /\ Arrive(r, Hosts, {"/health"})

\* One client that keeps sending requests to /health, one at a time.
LiveRequestLoggingDispatch(r) ==
    /\ r = 1
    /\ Arrive(r, {"10.0.0.1"}, {"/health"})

\* Webhook deliveries, handled one at a time.
WebhookRequestLoggingDispatch(r) ==
    /\ r = 1
    /\ Arrive(r, {"10.0.0.1", NoHost}, {"/webhooks/github"})

\* Variants of the test that sends a request through _check_rate_limit:
\* one that ignores settings.rate_limiting, one that ignores a missing client.
Metered_when_disabled(rec) == rec.host # NoHost
Metered_without_client(rec) == settings.rate_limiting

\* if settings.rate_limiting: ... if client_ip:
Metered(rec) == settings.rate_limiting /\ rec.host # NoHost

\* A variant of the way back through the limiter that reports the entry the
\* request's own check left.
rate_limiting_return_own(rec) ==
    IF rec.checked
    THEN [rec EXCEPT !.rate_headers = TRUE,
                     !.headers = get_rate_limit_headers(rec.stamped)]
    ELSE rec

\* RateLimitingMiddleware.dispatch once call_next has returned `rec`, the
\* request with the router's response: the headers are computed from the
\* client's entry as it is then.
rate_limiting_return(rec) ==
    IF rec.checked
    THEN [rec EXCEPT !.rate_headers = TRUE,
                     !.headers = get_rate_limit_headers(clients[rec.host])]
    ELSE rec

\* A variant of the logger that sits inside the limiter: it sees only what the
\* limiter admitted.
request_logging_return_inner(rec) ==
    [rec EXCEPT !.pc = "done", !.process_time = settings.debug /\ rec.called_next]

\* RequestLoggingMiddleware.dispatch once call_next has returned `rec`; the
\* response then leaves the application.
request_logging_return(rec) ==
    [rec EXCEPT !.pc = "done", !.process_time = settings.debug]

\* The router's response travels back through both middlewares.  Nothing
\* between the end of the handler and the reading of clients touches shared
\* state, so the way back is part of the step that ends the handler.
Respond(r, rec) == Set(r, request_logging_return(rate_limiting_return(rec)))

\* RateLimitingMiddleware.dispatch up to call_next or the 429 return
RateLimitingDispatch(r) ==
    /\ reqs[r].pc = "rate_limiting"
    /\ IF Metered(reqs[r])
       THEN \E now2 \in {clock, clock + 1} :
              LET client_ip == reqs[r].host
                  res == check_rate_limit(client_ip, clock, now2)
                  rec == [reqs[r] EXCEPT
                             !.checked = TRUE, !.checked_at = clock,
                             !.seen = GetClient(client_ip),
                             !.stamped = Entry(res.clients, client_ip)]
              IN /\ now2 <= StartClock + MaxTicks
                 /\ clients' = res.clients
                 /\ IF res.limited
                    THEN /\ now2 = clock
                         /\ Set(r, request_logging_return([rec EXCEPT
                                !.status = HTTP_429_TOO_MANY_REQUESTS,
                                !.message = "Rate limit exceeded. Please try again later",
                                !.rate_headers = TRUE,
                                !.headers = get_rate_limit_headers(
                                                Entry(res.clients, client_ip))]))
                         /\ UNCHANGED <<clock, admit_log>>
                    ELSE /\ clock' = now2
                         /\ admit_log' = [admit_log EXCEPT ![client_ip] =
                                              Logged(@, clock)]
                         /\ Set(r, [rec EXCEPT !.pc = "router",
                                               !.called_next = TRUE])
       ELSE /\ Set(r, [reqs[r] EXCEPT !.pc = "router", !.called_next = TRUE])
            /\ UNCHANGED <<clients, clock, admit_log>>
    /\ UNCHANGED settings

\* A variant of health_check that reports a failure.
health_check_unavailable(r) ==
    /\ reqs[r].pc = "router"
    /\ reqs[r].route = "/health"
    /\ Respond(r, [reqs[r] EXCEPT !.status = HTTP_500_INTERNAL_SERVER_ERROR,
                                  !.message = "unhealthy"])
    /\ UNCHANGED <<settings, clients, clock, admit_log>>

\* GET /health
health_check(r) ==
    /\ reqs[r].pc = "router"
    /\ reqs[r].route = "/health"
    /\ Respond(r, [reqs[r] EXCEPT !.status = HTTP_200_OK, !.message = "healthy"])
    /\ UNCHANGED <<settings, clients, clock, admit_log>>

\* ------------------------------------------------------ webhook dispatcher
\* A variant of validate_comments that keeps every object.
validate_comments_any_dict(comments) ==
    SelectSeq(comments, LAMBDA comment : comment.is_dict)

\* validate_comments: the entries that are objects holding path, line and body
validate_comments(comments) ==
    SelectSeq(comments, LAMBDA comment :
                  comment.is_dict /\ required_keys \subseteq comment.keys)

\* A variant of summarize_files that summarizes every file.
summarize_files_all(files) ==
    [i \in 1..Len(files) |->
        [filename |-> files[i].filename,
         patch |-> Prefix(IF files[i].has_patch THEN files[i].patch
                          ELSE EmptyStr, PATCH_LIMIT)]]

\* summarize_files: of the first FILES_LIMIT files, the name and the patch cut
\* to PATCH_LIMIT characters (the counts and the status are left out here)
summarize_files(files) ==
    LET first == SubSeq(files, 1, IF Len(files) < FILES_LIMIT
                                  THEN Len(files) ELSE FILES_LIMIT)
    IN [i \in 1..Len(first) |->
           [filename |-> first[i].filename,
            patch |-> Prefix(IF first[i].has_patch THEN first[i].patch
                             ELSE EmptyStr, PATCH_LIMIT)]]

\* The position of the first piece of text whose kind is in kinds, 0 if none
Find(text, kinds) ==
    IF \E i \in 1..Len(text) : text[i].kind \in kinds
    THEN CHOOSE i \in 1..Len(text) :
             /\ text[i].kind \in kinds
             /\ \A j \in 1..(i - 1) : text[j].kind \notin kinds
    ELSE 0

\* text.split(marker)[1].split(fence)[0] for a marker found at position i: what
\* follows the marker up to the next marker of either kind
Fenced(text, i) ==
    LET rest == SubSeq(text, i + 1, Len(text))
        j == Find(rest, Fences)
    IN IF j = 0 THEN rest ELSE SubSeq(rest, 1, j - 1)

\* extract_json_block (no piece here is white space, so strip() keeps all)
extract_json_block(text) ==
    IF Find(text, {"fence_json"}) # 0 THEN Fenced(text, Find(text, {"fence_json"}))
    ELSE IF Find(text, Fences) # 0 THEN Fenced(text, Find(text, Fences))
    ELSE text

\* ujson.loads accepts the block: it is one JSON value and nothing else
IsJson(block) == Len(block) = 1 /\ block[1].kind \in {"array", "null"}

\* A variant of review_data that always sends a comments field.
review_data_always_comments(commit_sha, comments) ==
    [commit_id |-> commit_sha,
     body |-> [text |-> "No issues found! The code looks good.", count |-> 0],
     event |-> "COMMENT", has_comments |-> TRUE, comments |-> comments]

\* A variant of review_data that names one fixed commit.
review_data_fixed_sha(commit_sha, comments) ==
    IF comments = << >>
    THEN [commit_id |-> "abc123",
          body |-> [text |-> "No issues found! The code looks good.", count |-> 0],
          event |-> "COMMENT", has_comments |-> FALSE, comments |-> << >>]
    ELSE [commit_id |-> "abc123",
          body |-> [text |-> "Found {len(comments)} suggestion(s) for improvement.",
                    count |-> Len(comments)],
          event |-> "COMMENT", has_comments |-> TRUE, comments |-> comments]

\* The payload post_review_comments builds
review_data(commit_sha, comments) ==
    IF comments = << >>
    THEN [commit_id |-> commit_sha,
          body |-> [text |-> "No issues found! The code looks good.", count |-> 0],
          event |-> "COMMENT", has_comments |-> FALSE, comments |-> << >>]
    ELSE [commit_id |-> commit_sha,
          body |-> [text |-> "Found {len(comments)} suggestion(s) for improvement.",
                    count |-> Len(comments)],
          event |-> "COMMENT", has_comments |-> TRUE, comments |-> comments]

\* A variant of Await that issues the call a second time.
Await_retry(r, rec, name) ==
    Set(r, [rec EXCEPT !.pc = name, !.calls = @ \o <<name, name>>])

\* The upstream call `name` is issued and the handler waits for its answer.
Await(r, rec, name) ==
    Set(r, [rec EXCEPT !.pc = name, !.calls = Append(@, name)])

\* A variant of error_response that passes on what the upstream answered.
error_response_upstream(rec, status_code, message, error_id) ==
    [rec EXCEPT !.status = IF rec.failure.status # 0 THEN rec.failure.status
                           ELSE status_code,
                !.id = UuidStr(error_id),
                !.message = rec.failure.exc]

\* http_exception_handler and request_validation_error_handler: the body
\* {status, id, message} with a new UUID, under the same status
error_response(rec, status_code, message, error_id) ==
    [rec EXCEPT !.status = status_code, !.id = UuidStr(error_id),
                !.message = message]

\* An upstream call raised `failure`, an httpx.HTTPError:
\* except (HTTPError, TransportError): raise HTTPException(500), which
\* http_exception_handler turns into the response
HttpError(r, failure) ==
    \E error_id \in Uuids :
        Respond(r, error_response([reqs[r] EXCEPT !.failure = failure],
                                  HTTP_500_INTERNAL_SERVER_ERROR,
                                  "Internal server error", error_id))

\* An exception no handler inside the middlewares catches unwinds both of
\* them; handle_exception answers from outside (with FastAPI(debug=True) the
\* traceback is sent instead)
Unhandled(r, rec) ==
    \E error_id \in Uuids :
        Set(r, [rec EXCEPT !.pc = "done",
                           !.status = HTTP_500_INTERNAL_SERVER_ERROR,
                           !.id = IF settings.debug THEN NoId ELSE UuidStr(error_id),
                           !.message = IF settings.debug THEN "traceback"
                                       ELSE "Internal server error"])

\* POST /webhooks/github: review up to its first await of an upstream call
review(r) ==
    /\ reqs[r].pc = "router"
    /\ reqs[r].route = "/webhooks/github"
    /\ \E x_github_event \in Events, body \in Bodies :
         LET rec == [reqs[r] EXCEPT !.x_github_event = x_github_event,
                                    !.body = body]
         IN IF x_github_event = NoHeader
            THEN \* the required header is missing: request_validation_error_handler
                 \E error_id \in Uuids :
                    Respond(r, error_response(rec, HTTP_422_UNPROCESSABLE_ENTITY,
                                              "validation error", error_id))
            ELSE IF x_github_event # "pull_request"
            THEN \* return None: the body of the response is null
                 Respond(r, [rec EXCEPT !.status = HTTP_200_OK, !.message = "null"])
            ELSE IF ~body.valid
            THEN \* GitHubRequest(...) raises pydantic's ValidationError
                 Unhandled(r, rec)
            ELSE Await(r, rec, "get_pr_files")
    /\ UNCHANGED <<settings, clients, clock, admit_log>>

\* get_pr_files answers as the upstream `up` may: with a files list or with an
\* exception; on success get_pr_head_sha is called
GetPrFiles(r, up) ==
    /\ reqs[r].pc = "get_pr_files"
    /\ \/ \E files \in up.lists :
            Await(r, [reqs[r] EXCEPT !.files = files], "get_pr_head_sha")
       \/ \E failure \in up.failures : HttpError(r, failure)
    /\ UNCHANGED <<settings, clients, clock, admit_log>>

\* get_pr_head_sha answers with a commit SHA or raises; on success
\* review_code_with_claude summarizes the files and calls the model
GetPrHeadSha(r, up) ==
    /\ reqs[r].pc = "get_pr_head_sha"
    /\ \/ \E commit_sha \in up.shas :
            Await(r, [reqs[r] EXCEPT
                         !.commit_sha = commit_sha,
                         !.files_summary = summarize_files(reqs[r].files)],
                  "call_claude_api")
       \/ \E failure \in up.failures : HttpError(r, failure)
    /\ UNCHANGED <<settings, clients, clock, admit_log>>

\* review_code_with_claude once call_claude_api returned `text`: the comments
\* it returns, << >> after a JSONDecodeError
review_code_with_claude(text) ==
    LET json_block == extract_json_block(text)
    IN IF IsJson(json_block) THEN validate_comments(json_block[1].array)
       ELSE << >>

\* call_claude_api answers with a text or raises; on success the reply is
\* parsed and validated and post_review_comments sends the review
CallClaudeApi(r, up) ==
    /\ reqs[r].pc = "call_claude_api"
    /\ \/ \E text \in up.texts :
            LET json_block == extract_json_block(text)
                comments == review_code_with_claude(text)
                rec == [reqs[r] EXCEPT !.response_text = text]
            IN IF IsJson(json_block) /\ json_block[1].kind = "null"
               THEN \* validate_comments iterates over None: TypeError
                    Unhandled(r, rec)
               ELSE Await(r, [rec EXCEPT
                                 !.comments = comments,
                                 !.review_data =
                                     review_data(reqs[r].commit_sha, comments)],
                          "post_review_comments")
       \/ \E failure \in up.failures : HttpError(r, failure)
    /\ UNCHANGED <<settings, clients, clock, admit_log>>

\* post_review_comments answers; review returns its summary
PostReviewComments(r, up) ==
    /\ reqs[r].pc = "post_review_comments"
    /\ \/ Respond(r, [reqs[r] EXCEPT
              !.status = HTTP_200_OK,
              !.message = "Review posted successfully",
              !.comments_count = Len(reqs[r].comments)])
       \/ \E failure \in up.failures : HttpError(r, failure)
    /\ UNCHANGED <<settings, clients, clock, admit_log>>

\* The upstream answers tried behind the two middlewares: one answer and one
\* exception for each call
FewAnswers ==
    [lists |-> OneFile, shas |-> {"abc123"},
     texts |-> {<<Piece("prose")>>, <<JsonArray(<<Comment>>)>>},
     failures |-> {[exc |-> "HTTPStatusError", status |-> 404]}]
GetPrFilesReturn(r) == GetPrFiles(r, FewAnswers)
GetPrHeadShaReturn(r) == GetPrHeadSha(r, FewAnswers)
CallClaudeApiReturn(r) == CallClaudeApi(r, FewAnswers)
PostReviewCommentsReturn(r) == PostReviewComments(r, FewAnswers)

\* The upstream answers tried on the dispatcher alone: every exception, both
\* SHAs and every wrapping of the reply, every files list, every array
OneFailure == {[exc |-> "ReadTimeout", status |-> 0]}
ReviewAnswers ==
    [lists |-> OneFile, shas |-> Shas, texts |-> Texts(FewArrays),
     failures |-> Failures]
FilesAnswers ==
    [lists |-> FileLists, shas |-> {"abc123"}, texts |-> {<<JsonArray(<< >>)>>},
     failures |-> OneFailure]
CommentsAnswers ==
    [lists |-> OneFile, shas |-> {"abc123"}, texts |-> Texts(Arrays),
     failures |-> OneFailure]

\* Webhook deliveries from a client without address (not metered), one at a
\* time.
UnmeteredRequestLoggingDispatch(r) ==
    /\ r = 1
    /\ Arrive(r, {NoHost}, {"/webhooks/github"})

\* time passes
Tick ==
    /\ clock < StartClock + MaxTicks
    /\ clock' = clock + 1
    /\ UNCHANGED <<settings, clients, reqs, admit_log>>

\* A stored time one second further in the past; a time more than MaxDuration
\* before the clock is past every window and is kept
Older(t) == IF t < clock - MaxDuration THEN t ELSE t - 1

\* Time passes without end: one second goes by with the reading of the clock
\* kept, so every stored time lies one second further back.  What
\* _check_rate_limit decides depends on datetime.now() - last_request only.
\* (The times a request has read, and the minute X-RateLimit-Reset names,
\* are not moved.)
Elapse ==
    /\ clients' = [h \in DOMAIN clients |->
                      [clients[h] EXCEPT !.last_request = Older(@)]]
    /\ admit_log' = [h \in Hosts |->
                        [i \in DOMAIN admit_log[h] |-> Older(admit_log[h][i])]]
    /\ UNCHANGED <<settings, clock, reqs>>

Init ==
    /\ settings \in [rate_limiting : BOOLEAN,
                     rate_limit_requests : 1..MaxLimit,
                     rate_limit_duration_in_seconds : 1..MaxDuration,
                     debug : BOOLEAN]
    /\ clients = <<>>
    /\ clock = StartClock
    /\ reqs = [r \in Req |-> Idle]
    /\ admit_log = [h \in Hosts |-> <<>>]

\* Concurrent requests to /health.
Next ==
    \/ \E r \in Req : RequestLoggingDispatch(r)
    \/ \E r \in Req : RateLimitingDispatch(r)
    \/ \E r \in Req : health_check(r)
    \/ \E r \in Req : Close(r)
    \/ Tick

Spec == Init /\ [][Next]_vars

\* Sequential requests of one client to /health.
NextSeq ==
    \/ \E r \in Req : SeqRequestLoggingDispatch(r)
    \/ \E r \in Req : RateLimitingDispatch(r)
    \/ \E r \in Req : health_check(r)
    \/ Tick

SpecSeq == Init /\ [][NextSeq]_vars

\* Requests of two clients to /health.
NextTwoClients ==
    \/ \E r \in Req : TwoClientsRequestLoggingDispatch(r)
    \/ \E r \in Req : RateLimitingDispatch(r)
    \/ \E r \in Req : health_check(r)
    \/ \E r \in Req : Close(r)
    \/ Tick

SpecTwoClients == Init /\ [][NextTwoClients]_vars

\* One client sending requests for ever while time passes.  The event loop
\* runs every task that is ready, the client sends again after each response,
\* and time does not stop.
NextLive ==
    \/ \E r \in Req : LiveRequestLoggingDispatch(r)
    \/ \E r \in Req : RateLimitingDispatch(r)
    \/ \E r \in Req : health_check(r)
    \/ \E r \in Req : Close(r)
    \/ Elapse

SpecLive ==
    /\ Init
    /\ [][NextLive]_vars
    /\ WF_vars(\E r \in Req : LiveRequestLoggingDispatch(r))
    /\ WF_vars(\E r \in Req : RateLimitingDispatch(r))
    /\ WF_vars(\E r \in Req : health_check(r))
    /\ WF_vars(\E r \in Req : Close(r))
    /\ WF_vars(Elapse)

\* Webhook deliveries, one at a time.
NextWebhook ==
    \/ \E r \in Req : WebhookRequestLoggingDispatch(r)
    \/ \E r \in Req : RateLimitingDispatch(r)
    \/ \E r \in Req : review(r)
    \/ \E r \in Req : GetPrFilesReturn(r)
    \/ \E r \in Req : GetPrHeadShaReturn(r)
    \/ \E r \in Req : CallClaudeApiReturn(r)
    \/ \E r \in Req : PostReviewCommentsReturn(r)
    \/ \E r \in Req : Close(r)
    \/ Tick

SpecWebhook == Init /\ [][NextWebhook]_vars

\* The dispatcher with the upstream answering as `up` allows.
Dispatcher(up) ==
    \/ \E r \in Req : UnmeteredRequestLoggingDispatch(r)
    \/ \E r \in Req : RateLimitingDispatch(r)
    \/ \E r \in Req : review(r)
    \/ \E r \in Req : GetPrFiles(r, up)
    \/ \E r \in Req : GetPrHeadSha(r, up)
    \/ \E r \in Req : CallClaudeApi(r, up)
    \/ \E r \in Req : PostReviewComments(r, up)
    \/ \E r \in Req : Close(r)

NextReview == Dispatcher(ReviewAnswers)
SpecReview == Init /\ [][NextReview]_vars

NextFiles == Dispatcher(FilesAnswers)
SpecFiles == Init /\ [][NextFiles]_vars

NextComments == Dispatcher(CommentsAnswers)
SpecComments == Init /\ [][NextComments]_vars

\* ================================================================ claims
\* The seconds between the request's check and the timestamp it read
Age(r) == reqs[r].checked_at - reqs[r].seen.last_request

\* The request went through _check_rate_limit and was refused
Rejected(r) == reqs[r].checked /\ reqs[r].status = HTTP_429_TOO_MANY_REQUESTS

\* The logged admissions of client h in the RATE_LIMIT_DURATION seconds from t on
AdmittedFrom(h, t) ==
    {i \in DOMAIN admit_log[h] :
        admit_log[h][i] >= t /\ admit_log[h][i] <= t + RATE_LIMIT_DURATION}

\* C1: whatever the interleaving of a client's requests, no span of
\* RATE_LIMIT_DURATION seconds holds more than rate_limit_requests admissions
\* of that client; and a request that reads the entry left by the admission
\* that took the last slot, inside the window, is rejected with 429 and never
\* reaches call_next.
C1_NoDoubleAdmit ==
    /\ \A h \in Hosts : \A i \in DOMAIN admit_log[h] :
          Cardinality(AdmittedFrom(h, admit_log[h][i])) <= settings.rate_limit_requests
    /\ \A r, q \in Req :
          ( /\ r # q
            /\ reqs[r].checked /\ reqs[q].checked
            /\ reqs[r].host = reqs[q].host
            /\ reqs[r].called_next
            /\ reqs[r].stamped.request_count = settings.rate_limit_requests
            /\ reqs[q].seen = reqs[r].stamped
            /\ Age(q) <= RATE_LIMIT_DURATION )
          => Rejected(q) /\ ~reqs[q].called_next

\* Two requests of one client open at once in the same second, one slot left:
\* r took it and is still with its handler, q was rejected.
C1_Witness ==
    \E r, q \in Places :
        /\ r # q
        /\ reqs[r].host = reqs[q].host
        /\ reqs[r].pc = "router" /\ reqs[r].checked
        /\ reqs[r].seen.request_count = settings.rate_limit_requests - 1
        /\ Age(r) <= RATE_LIMIT_DURATION
        /\ reqs[r].stamped.request_count = settings.rate_limit_requests
        /\ Rejected(q)
        /\ reqs[q].seen = reqs[r].stamped
        /\ reqs[q].checked_at = reqs[r].checked_at

\* In a sequential run: which of its client's requests r is, and the first one
Ordinal(r) == Cardinality({q \in 1..r : reqs[q].host = reqs[r].host})
FirstOf(r) == CHOOSE q \in 1..r :
                 /\ reqs[q].host = reqs[r].host
                 /\ \A p \in 1..(q - 1) : reqs[p].host # reqs[r].host

\* C2: in a sequential run that starts with no counter, a client's j-th
\* request, j <= rate_limit_requests, checked within RATE_LIMIT_DURATION of its
\* first one, is admitted (call_next runs, no 429) and its response carries
\* X-RateLimit-Remaining = limit - j, one less than the response before.
C2_UnderLimitAdmitted ==
    \A r \in Req :
        ( /\ settings.rate_limiting
          /\ reqs[r].host # NoHost
          /\ reqs[r].pc \in {"router", "done"}
          /\ Ordinal(r) <= settings.rate_limit_requests
          /\ reqs[r].checked_at - reqs[FirstOf(r)].checked_at <= RATE_LIMIT_DURATION )
        => /\ reqs[r].called_next
           /\ reqs[r].status # HTTP_429_TOO_MANY_REQUESTS
           /\ reqs[r].pc = "done" =>
                 /\ reqs[r].status = HTTP_200_OK
                 /\ reqs[r].rate_headers
                 /\ reqs[r].headers.remaining =
                        settings.rate_limit_requests - Ordinal(r)

\* Two requests answered inside one window with Remaining 1 and then 0
C2_Witness ==
    /\ settings.rate_limit_requests = 2
    /\ reqs[1].pc = "done" /\ reqs[2].pc = "done"
    /\ reqs[2].checked_at - reqs[1].checked_at <= RATE_LIMIT_DURATION
    /\ reqs[1].headers.remaining = 1 /\ reqs[1].status = HTTP_200_OK
    /\ reqs[2].headers.remaining = 0 /\ reqs[2].status = HTTP_200_OK

\* C3: in a sequential run, when the rate_limit_requests requests before r
\* were all admitted and each request from the second of them up to r came
\* within RATE_LIMIT_DURATION of the one before, r is rejected with 429
\* without call_next, with X-RateLimit-Limit = limit and X-RateLimit-Remaining = 0.
C3_OverLimitRejected ==
    \A r \in Req :
        ( /\ settings.rate_limiting
          /\ reqs[r].host # NoHost
          /\ reqs[r].pc \in {"router", "done"}
          /\ r - settings.rate_limit_requests >= 1
          /\ \A q \in (r - settings.rate_limit_requests)..(r - 1) :
                /\ reqs[q].host = reqs[r].host
                /\ reqs[q].called_next
                /\ reqs[q + 1].checked_at - reqs[q].checked_at <= RATE_LIMIT_DURATION )
        => /\ reqs[r].status = HTTP_429_TOO_MANY_REQUESTS
           /\ ~reqs[r].called_next
           /\ reqs[r].rate_headers
           /\ reqs[r].headers.limit = settings.rate_limit_requests
           /\ reqs[r].headers.remaining = 0

\* limit = 2: two requests admitted, the third rejected with Remaining 0
C3_Witness ==
    /\ settings.rate_limit_requests = 2
    /\ reqs[1].called_next /\ reqs[2].called_next
    /\ reqs[1].checked /\ reqs[2].checked
    /\ Rejected(3)
    /\ reqs[3].checked_at - reqs[1].checked_at <= RATE_LIMIT_DURATION
    /\ reqs[3].headers.remaining = 0

\* C4: a request checked more than RATE_LIMIT_DURATION after the timestamp
\* stored for its client is admitted and leaves request_count = 1, also when
\* the client was at its limit; after RATE_LIMIT_DURATION or less (exactly the
\* duration included) there is no reset: the request is counted on top of the
\* stored count, or rejected when the count is at the limit.
C4_ResetAfterWindow ==
    \A r \in Req : reqs[r].checked =>
        /\ Age(r) > RATE_LIMIT_DURATION =>
              /\ reqs[r].called_next
              /\ reqs[r].stamped.request_count = 1
        /\ Age(r) <= RATE_LIMIT_DURATION =>
              IF reqs[r].seen.request_count < settings.rate_limit_requests
              THEN /\ reqs[r].called_next
                   /\ reqs[r].stamped.request_count = reqs[r].seen.request_count + 1
              ELSE /\ Rejected(r)
                   /\ reqs[r].stamped = reqs[r].seen

\* r found its client at the limit with the window over and was admitted with
\* count 1; q came exactly RATE_LIMIT_DURATION after the stored timestamp and
\* was not reset (here: rejected, the count being at the limit)
C4_Witness ==
    \E r, q \in Places :
        /\ r # q
        /\ reqs[r].checked /\ reqs[r].called_next
        /\ reqs[r].seen.request_count = settings.rate_limit_requests
        /\ Age(r) > RATE_LIMIT_DURATION
        /\ reqs[r].stamped.request_count = 1
        /\ reqs[q].checked /\ reqs[q].host = reqs[r].host
        /\ Age(q) = RATE_LIMIT_DURATION
        /\ Rejected(q)

\* C5: the step that rejects a request leaves clients as it was, the count of
\* the rejected client standing at the limit; so any number of rejections in
\* a row keeps the count pinned.
C5_RejectionKeepsCount ==
    [][\A r \in Req :
          (reqs[r].pc = "rate_limiting" /\ reqs'[r].status = HTTP_429_TOO_MANY_REQUESTS)
          => /\ clients' = clients
             /\ Entry(clients, reqs[r].host).request_count =
                    settings.rate_limit_requests]_vars

\* Two rejections of one client and its count still at the limit
C5_Witness ==
    \E r, q \in Places :
        /\ r # q
        /\ reqs[r].host = reqs[q].host
        /\ Rejected(r) /\ Rejected(q)
        /\ reqs[r].seen = reqs[q].seen
        /\ Entry(clients, reqs[r].host) = reqs[r].seen
        /\ reqs[r].seen.request_count = settings.rate_limit_requests

\* C6 (as stated): every request that reaches the limiter for an identified
\* client, admitted or rejected, leaves that client's stored last_request at
\* the time of the request.
C6_EveryRequestStamps ==
    \A r \in Req : reqs[r].checked =>
        reqs[r].stamped.last_request >= reqs[r].checked_at

\* C6 (amended): an admitted request leaves the client's last_request at the
\* time of that request (the second datetime.now() of _check_rate_limit, at or
\* just after the first); a rejected request leaves the stored entry, its
\* timestamp included, as it found it.
C6_AdmittedRequestStamps ==
    \A r \in Req : reqs[r].checked =>
        IF reqs[r].called_next
        THEN /\ reqs[r].stamped.last_request >= reqs[r].checked_at
             /\ reqs[r].stamped.last_request <= reqs[r].checked_at + 1
        ELSE /\ Rejected(r)
             /\ reqs[r].stamped.last_request = reqs[r].seen.last_request

\* A request rejected later than the stored timestamp, which it left alone,
\* next to an admitted request of the same client stamped with its own time
C6_Witness ==
    \E r, q \in Places :
        /\ r # q
        /\ reqs[r].host = reqs[q].host
        /\ reqs[q].checked /\ reqs[q].called_next
        /\ reqs[q].stamped.last_request >= reqs[q].checked_at
        /\ Rejected(r)
        /\ reqs[r].checked_at > reqs[r].seen.last_request
        /\ reqs[r].stamped = reqs[r].seen
        /\ Entry(clients, reqs[r].host).last_request < reqs[r].checked_at

\* C7 (as stated): whenever rate-limit headers are put on a response, admitted
\* or rejected, X-RateLimit-Reset is the client's stored last_request plus
\* RATE_LIMIT_DURATION.
C7_ResetIsWindowEnd ==
    [][\A r \in Req :
          (~reqs[r].rate_headers /\ reqs'[r].rate_headers)
          => reqs'[r].headers.reset =
                 Entry(clients', reqs'[r].host).last_request
                     + RATE_LIMIT_DURATION]_vars

\* C8 (as stated): every answered GET /health is 200 "healthy".
C8_HealthAlwaysHealthy ==
    \A r \in Req :
        (reqs[r].route = "/health" /\ reqs[r].pc = "done")
        => /\ reqs[r].status = HTTP_200_OK
           /\ reqs[r].message = "healthy"

\* C8 (amended): a GET /health that reaches the handler (rate limiting off, no
\* client address, or the client under its limit or past its window) is
\* answered 200 "healthy"; the only other answer is the limiter's 429, given
\* without running the handler when rate limiting is on and the client's count
\* is at the limit inside its window.
C8_HealthUnlessLimited ==
    \A r \in Req :
        (reqs[r].route = "/health" /\ reqs[r].pc = "done")
        => IF reqs[r].called_next
           THEN /\ reqs[r].status = HTTP_200_OK
                /\ reqs[r].message = "healthy"
           ELSE /\ reqs[r].status = HTTP_429_TOO_MANY_REQUESTS
                /\ settings.rate_limiting
                /\ reqs[r].host # NoHost
                /\ reqs[r].checked
                /\ reqs[r].seen.request_count >= settings.rate_limit_requests
                /\ Age(r) <= RATE_LIMIT_DURATION

\* One GET /health answered 200 "healthy" and another, of the same client at
\* its limit, answered 429
C8_Witness ==
    \E r, q \in Places :
        /\ r # q
        /\ reqs[r].route = "/health" /\ reqs[q].route = "/health"
        /\ reqs[r].host = reqs[q].host
        /\ reqs[r].pc = "done" /\ reqs[r].called_next
        /\ reqs[r].status = HTTP_200_OK /\ reqs[r].message = "healthy"
        /\ reqs[q].pc = "done" /\ ~reqs[q].called_next
        /\ reqs[q].status = HTTP_429_TOO_MANY_REQUESTS

\* C9 (as stated): a pull_request delivery with a well-formed body whose action
\* is neither opened nor synchronize makes no upstream call and is answered
\* 200 with an "ignored" message.
C9_OtherActionsIgnored ==
    \A r \in Req :
        ( /\ reqs[r].x_github_event = "pull_request"
          /\ reqs[r].body.valid
          /\ reqs[r].body.action \notin {"opened", "synchronize"} )
        => /\ reqs[r].calls = << >>
           /\ reqs[r].pc = "done" =>
                 /\ reqs[r].status = HTTP_200_OK
                 /\ reqs[r].message = "Event ignored"

\* C10 (as stated): a delivery whose x-github-event is not "pull_request"
\* makes no upstream call and is answered 200 with the message
\* "Event ignored", whatever its body.
C10_OtherEventsIgnored ==
    \A r \in Req :
        ( /\ reqs[r].pc \notin {"idle", "rate_limiting", "router"}
          /\ reqs[r].called_next
          /\ reqs[r].x_github_event \in Events \ {"pull_request", NoHeader} )
        => /\ reqs[r].calls = << >>
           /\ reqs[r].status = HTTP_200_OK
           /\ reqs[r].message = "Event ignored"

\* C11 (as stated): a pull_request delivery whose body does not have the shape
\* of GitHubRequest makes no upstream call and is answered 422.
C11_InvalidBodyIs422 ==
    \A r \in Req :
        ( /\ reqs[r].x_github_event = "pull_request"
          /\ ~reqs[r].body.valid
          /\ reqs[r].pc = "done" )
        => /\ reqs[r].calls = << >>
           /\ reqs[r].status = HTTP_422_UNPROCESSABLE_ENTITY

\* The calls review makes, in the order of its code
Order == <<"get_pr_files", "get_pr_head_sha", "call_claude_api",
           "post_review_comments">>
Hyphens(id) == {i \in 1..Len(id) : id[i] = "-"}

\* C12: once one of the four upstream calls has raised (a transport error, a
\* timeout, or raise_for_status on a non-2xx answer), the request is over and
\* its response is 500 with the body status 500, message "Internal server
\* error" and an id that is the text of a UUID made for this response (36
\* characters, 4 hyphens); neither the upstream status nor 200 is answered.
C12_UpstreamFailureIs500 ==
    \A r \in Req : reqs[r].failure # NoFailure =>
        /\ reqs[r].pc = "done"
        /\ reqs[r].status = HTTP_500_INTERNAL_SERVER_ERROR
        /\ reqs[r].status # reqs[r].failure.status
        /\ reqs[r].message = "Internal server error"
        /\ reqs[r].id \in {UuidStr(u) : u \in Uuids}
        /\ Len(reqs[r].id) = 36
        /\ Cardinality(Hyphens(reqs[r].id)) = 4
        /\ reqs[r].comments_count = 0

\* The review post answered 503 after three successful calls: the response is
\* 500 with a 36-character id
C12_Witness ==
    \E r \in Req :
        /\ reqs[r].calls = Order
        /\ reqs[r].failure = [exc |-> "HTTPStatusError", status |-> 503]
        /\ reqs[r].pc = "done"
        /\ reqs[r].status = HTTP_500_INTERNAL_SERVER_ERROR
        /\ Len(reqs[r].id) = 36

\* A request's calls so far are the first ones of Order, the call awaited is
\* the last of them, and a request with a failed call is over
C13_State ==
    \A r \in Req :
        /\ Len(reqs[r].calls) <= Len(Order)
        /\ reqs[r].calls = SubSeq(Order, 1, Len(reqs[r].calls))
        /\ reqs[r].failure # NoFailure => reqs[r].pc = "done"
        /\ reqs[r].pc \in {Order[k] : k \in 1..Len(Order)} =>
              /\ reqs[r].calls # << >>
              /\ reqs[r].calls[Len(reqs[r].calls)] = reqs[r].pc

\* A step that issues a call issues the one next in Order, once, from the
\* state that awaited the previous call, and not after a failure
C13_Step ==
    \A r \in Req :
        (reqs'[r].calls # reqs[r].calls /\ reqs'[r].pc # "idle") =>
            \E k \in 1..Len(Order) :
                /\ reqs[r].calls = SubSeq(Order, 1, k - 1)
                /\ reqs'[r].calls = SubSeq(Order, 1, k)
                /\ reqs[r].pc = IF k = 1 THEN "router" ELSE Order[k - 1]
                /\ reqs'[r].pc = Order[k]
                /\ reqs[r].failure = NoFailure
                /\ reqs'[r].failure = NoFailure

\* C13: within one request the upstream calls are issued in the order files,
\* head SHA, model, review post, each once and only when the call before it
\* returned without raising; after a call has raised none is issued, so the
\* review is posted only after the three other calls succeeded.
C13_CallsInOrder == []C13_State /\ [][C13_Step]_vars

\* The SHA fetch raised after the files fetch succeeded: two calls, no more
C13_Witness ==
    \E r \in Req :
        /\ reqs[r].calls = SubSeq(Order, 1, 2)
        /\ reqs[r].failure # NoFailure
        /\ reqs[r].pc = "done"

\* C14: when call_claude_api returned a text whose block ujson.loads does not
\* accept, the comments are the empty list, the review is posted with the
\* no-issues body and without comments, and the response to a posted review
\* is 200 with comments_count = 0.
C14_UnparsableReplyGivesNoComments ==
    \A r \in Req :
        ( /\ reqs[r].response_text # << >>
          /\ ~IsJson(extract_json_block(reqs[r].response_text)) )
        => /\ reqs[r].pc \in {"post_review_comments", "done"}
           /\ reqs[r].calls = Order
           /\ reqs[r].comments = << >>
           /\ reqs[r].review_data.body.count = 0
           /\ reqs[r].review_data.body.text = "No issues found! The code looks good."
           /\ ~reqs[r].review_data.has_comments
           /\ (reqs[r].pc = "done" /\ reqs[r].failure = NoFailure) =>
                 /\ reqs[r].status = HTTP_200_OK
                 /\ reqs[r].message = "Review posted successfully"
                 /\ reqs[r].comments_count = 0

\* The reply was prose inside a json block: answered 200 with no comments
C14_Witness ==
    \E r \in Req :
        /\ reqs[r].response_text =
               <<Piece("fence_json"), Piece("prose"), Piece("fence")>>
        /\ reqs[r].pc = "done"
        /\ reqs[r].status = HTTP_200_OK
        /\ reqs[r].comments_count = 0
        /\ reqs[r].review_data.commit_id \in Shas

\* With rate limiting off no request went through _check_rate_limit, none
\* holds a 429 or rate-limit headers, the map is empty, and every request past
\* the limiter was handed to call_next
C15_State ==
    ~settings.rate_limiting =>
        /\ clients = << >>
        /\ \A r \in Req :
              /\ ~reqs[r].checked
              /\ reqs[r].status # HTTP_429_TOO_MANY_REQUESTS
              /\ ~reqs[r].rate_headers
              /\ reqs[r].pc \in {"router", "done"} => reqs[r].called_next

\* With rate limiting off no step changes the map, and a request is handed to
\* call_next in one step only: the one that takes it from the limiter to the
\* router, where no step brings it a second time
C15_Step ==
    ~settings.rate_limiting =>
        /\ clients' = clients
        /\ \A r \in Req :
              (reqs'[r].pc = "router" /\ reqs[r].pc # "router") =>
                  /\ reqs[r].pc = "rate_limiting"
                  /\ ~reqs[r].called_next
                  /\ reqs'[r].called_next

\* C15: with settings.rate_limiting off every request is passed to call_next
\* exactly once, clients is never changed (no entry created or updated), no
\* request is answered 429 and no response carries rate-limit headers.
C15_DisabledBypasses == []C15_State /\ [][C15_Step]_vars

\* Rate limiting off, limit 1: two requests of one client both answered 200
\* without headers
C15_Witness ==
    /\ ~settings.rate_limiting
    /\ settings.rate_limit_requests = 1
    /\ \A r \in Places :
          /\ reqs[r].pc = "done"
          /\ reqs[r].host = "10.0.0.1"
          /\ reqs[r].status = HTTP_200_OK
          /\ ~reqs[r].rate_headers

\* With rate limiting on, a request without client address past the limiter
\* was handed to call_next unchecked and holds neither a 429 nor headers
C16_State ==
    settings.rate_limiting =>
        \A r \in Req :
            (reqs[r].host = NoHost /\ reqs[r].pc \in {"router", "done"}) =>
                /\ reqs[r].called_next
                /\ ~reqs[r].checked
                /\ reqs[r].status # HTTP_429_TOO_MANY_REQUESTS
                /\ ~reqs[r].rate_headers

\* The limiter's step for a request without client address leaves the map as
\* it was and hands the request to the router
C16_Step ==
    settings.rate_limiting =>
        \A r \in Req :
            ( /\ reqs[r].pc = "rate_limiting"
              /\ reqs[r].host = NoHost
              /\ reqs'[r] # reqs[r] )
            => /\ clients' = clients
               /\ reqs'[r].pc = "router"

\* C16: with rate limiting on, a request without resolvable client address is
\* never rejected: it is passed to call_next unmetered and clients is left
\* unchanged, however many such requests there are.
C16_UnidentifiedPassesUnmetered == []C16_State /\ [][C16_Step]_vars

\* The identified client is at its limit, and two requests without address
\* have been answered 200 all the same
C16_Witness ==
    /\ settings.rate_limiting
    /\ DOMAIN clients = {"10.0.0.1"}
    /\ clients["10.0.0.1"].request_count = settings.rate_limit_requests
    /\ \A r \in Places :
          /\ reqs[r].pc = "done"
          /\ reqs[r].host = NoHost
          /\ reqs[r].status = HTTP_200_OK
          /\ reqs[r].called_next

\* C17 (as stated): the logger, and its X-Process-Time header, is applied only
\* to requests the limiter admitted; a rejected request reaches neither the
\* logger nor the dispatcher.
C17_LimiterBeforeLogger ==
    \A r \in Req :
        /\ reqs[r].process_time => reqs[r].called_next
        /\ Rejected(r) => (~reqs[r].process_time /\ reqs[r].calls = << >>)

\* The exception of the request left the handler uncaught
Uncaught(r) ==
    /\ reqs[r].pc = "done"
    /\ reqs[r].x_github_event = "pull_request"
    /\ ~reqs[r].body.valid

\* C17 (amended): the logger is outside the limiter.  With settings.debug on,
\* every response that comes back through it carries X-Process-Time, the 429
\* of a rejected request included (only the 500 for an uncaught exception,
\* built outside both middlewares, does not); with settings.debug off none
\* does.  A rejected request never reaches the dispatcher.
C17_LoggerBeforeLimiter ==
    \A r \in Req :
        /\ reqs[r].pc = "done" =>
              reqs[r].process_time = (settings.debug /\ ~Uncaught(r))
        /\ Rejected(r) =>
              /\ ~reqs[r].called_next
              /\ reqs[r].x_github_event = ""
              /\ reqs[r].calls = << >>

\* A delivery rejected with 429 whose response carries X-Process-Time
C17_Witness ==
    \E r \in Req :
        /\ reqs[r].route = "/webhooks/github"
        /\ Rejected(r)
        /\ reqs[r].pc = "done"
        /\ reqs[r].process_time
        /\ ~reqs[r].called_next

\* An entry that is an object with all of path, line and body
WellFormed(entry) ==
    entry.is_dict /\ {"path", "line", "body"} \subseteq entry.keys

\* The position in array of its i-th well-formed entry
NthWellFormed(array, i) ==
    CHOOSE p \in 1..Len(array) :
        /\ WellFormed(array[p])
        /\ Cardinality({q \in 1..(p - 1) : WellFormed(array[q])}) = i - 1

\* The array the request's reply held, << >> when the block was no array
ParsedArray(r) ==
    LET json_block == extract_json_block(reqs[r].response_text)
    IN IF IsJson(json_block) /\ json_block[1].kind = "array"
       THEN json_block[1].array ELSE << >>

\* C18: the comments validate_comments returns for a parsed array are its
\* well-formed entries (objects with path, line and body), all of them, in the
\* order of the array, and nothing else; N well-formed entries give N comments.
C18_ValidateKeepsWellFormed ==
    \A r \in Req :
        reqs[r].pc \in {"post_review_comments", "done"} /\ reqs[r].calls = Order =>
            LET array == ParsedArray(r)
                good == {p \in 1..Len(array) : WellFormed(array[p])}
            IN /\ Len(reqs[r].comments) = Cardinality(good)
               /\ \A i \in 1..Len(reqs[r].comments) :
                     reqs[r].comments[i] = array[NthWellFormed(array, i)]
               /\ (good = 1..Len(array)) => reqs[r].comments = array

\* An array of an object without body and a well-formed one: one comment;
\* the witness names the reply inside a json block
C18_Witness ==
    \E r \in Req :
        /\ reqs[r].response_text =
              <<Piece("fence_json"),
                JsonArray(<<[is_dict |-> TRUE, keys |-> {"path", "line"}],
                            [is_dict |-> TRUE,
                             keys |-> {"path", "line", "body", "side"}]>>),
                Piece("fence")>>
        /\ reqs[r].comments =
              <<[is_dict |-> TRUE, keys |-> {"path", "line", "body", "side"}]>>
        /\ reqs[r].pc = "done"
        /\ reqs[r].comments_count = 1

\* The smaller of two numbers
Smaller(a, b) == IF a < b THEN a ELSE b

\* C19: the summary made of a files list holds min(n, 10) entries, those of
\* the first files in their order, and each patch in it is the prefix of at
\* most 3000 characters of the file's patch, empty when the file has none.
C19_SummaryIsCapped ==
    \A r \in Req :
        Len(reqs[r].calls) >= 3 =>
            LET files == reqs[r].files
                summary == reqs[r].files_summary
            IN /\ Len(summary) = Smaller(Len(files), 10)
               /\ \A i \in 1..Len(summary) :
                     /\ summary[i].filename = files[i].filename
                     /\ summary[i].patch.len <= 3000
                     /\ summary[i].patch.from = 0
                     /\ IF files[i].has_patch
                        THEN /\ summary[i].patch.len =
                                    Smaller(files[i].patch.len, 3000)
                             /\ summary[i].patch.of = files[i].patch.of
                        ELSE summary[i].patch = EmptyStr

\* Eleven files: ten summarized, among them a patch of 3001 characters cut to
\* 3000, a patch kept whole, and a file without patch
C19_Witness ==
    \E r \in Req :
        /\ Len(reqs[r].files) = 11
        /\ Len(reqs[r].files_summary) = 10
        /\ \E i, j, k \in 1..10 :
              /\ reqs[r].files[i].patch.len = 3001
              /\ reqs[r].files_summary[i].patch.len = 3000
              /\ reqs[r].files[j].patch.len = 2999
              /\ reqs[r].files_summary[j].patch = reqs[r].files[j].patch
              /\ ~reqs[r].files[k].has_patch
              /\ reqs[r].files_summary[k].patch = EmptyStr

\* C20: the review sent names the SHA get_pr_head_sha returned to this
\* request and the event COMMENT; without comments it has the no-issues body
\* and no comments field, otherwise its body gives the number of comments and
\* its comments field is the validated list; a 200 response reports as
\* comments_count the number of comments sent.
C20_ReviewMatchesComments ==
    \A r \in Req :
        reqs[r].calls = Order =>
            LET sent == reqs[r].review_data
            IN /\ reqs[r].commit_sha \in Shas
               /\ sent.commit_id = reqs[r].commit_sha
               /\ sent.event = "COMMENT"
               /\ sent.comments = reqs[r].comments
               /\ IF reqs[r].comments = << >>
                  THEN /\ ~sent.has_comments
                       /\ sent.body.text = "No issues found! The code looks good."
                  ELSE /\ sent.has_comments
                       /\ sent.body.text =
                              "Found {len(comments)} suggestion(s) for improvement."
                       /\ sent.body.count = Len(reqs[r].comments)
               /\ reqs[r].status = HTTP_200_OK =>
                     reqs[r].comments_count = Len(sent.comments)

\* A review with one comment sent for the second SHA and answered 200 with
\* comments_count 1
C20_Witness ==
    \E r \in Req :
        /\ reqs[r].pc = "done"
        /\ reqs[r].status = HTTP_200_OK
        /\ reqs[r].commit_sha = "def456"
        /\ reqs[r].review_data.commit_id = "def456"
        /\ reqs[r].review_data.has_comments
        /\ reqs[r].review_data.body.count = 1
        /\ reqs[r].comments_count = 1

\* In a sequential run: the time at which the last admitted request before r
\* was checked
LastAdmittedAt(r) ==
    LET p == CHOOSE p \in 1..(r - 1) :
                 /\ reqs[p].called_next
                 /\ \A q \in (p + 1)..(r - 1) : ~reqs[q].called_next
    IN reqs[p].checked_at

\* Every request from the second up to r was checked within
\* RATE_LIMIT_DURATION of the admitted request before it
Steady(r) ==
    \A q \in 2..r :
        /\ reqs[q].checked
        /\ \E p \in 1..(q - 1) : reqs[p].called_next
        /\ reqs[q].checked_at - LastAdmittedAt(q) <= RATE_LIMIT_DURATION

\* C21: in a sequential run of one client in which every request comes within
\* RATE_LIMIT_DURATION of the admitted request before it, the count is never
\* reset, however long ago the first request was: the r-th request leaves the
\* count at min(r, limit) and is rejected as soon as r exceeds the limit.
C21_SteadyTrafficExtendsWindow ==
    \A r \in Req :
        (settings.rate_limiting /\ reqs[r].checked /\ Steady(r)) =>
            /\ reqs[r].stamped.request_count =
                   (IF r < settings.rate_limit_requests THEN r
                    ELSE settings.rate_limit_requests)
            /\ (r > 1 /\ reqs[r].called_next) =>
                  reqs[r].stamped.request_count = reqs[r].seen.request_count + 1
            /\ r > settings.rate_limit_requests => Rejected(r)
            /\ r <= settings.rate_limit_requests => reqs[r].called_next

\* limit 2: the third request is rejected more than RATE_LIMIT_DURATION after
\* the first, with one admission only in the RATE_LIMIT_DURATION before it
C21_Witness ==
    /\ settings.rate_limit_requests = 2
    /\ Steady(3)
    /\ Rejected(3)
    /\ reqs[3].checked_at - reqs[1].checked_at > RATE_LIMIT_DURATION
    /\ Cardinality({q \in 1..2 :
           reqs[3].checked_at - reqs[q].checked_at <= RATE_LIMIT_DURATION}) = 1

\* The larger of two numbers
Larger(a, b) == IF a > b THEN a ELSE b

\* Every stored count is between 1 and the limit, and every rate-limit header
\* set reports a Remaining between 0 and limit - 1
C22_State ==
    /\ settings.rate_limit_requests >= 1
    /\ \A h \in DOMAIN clients :
          /\ clients[h].request_count >= 1
          /\ clients[h].request_count <= settings.rate_limit_requests
    /\ \A r \in Req : reqs[r].rate_headers =>
          /\ reqs[r].headers.remaining >= 0
          /\ reqs[r].headers.remaining < settings.rate_limit_requests

\* The step that puts the headers on a response, admitted or rejected,
\* reports max(limit - request_count, 0) of the client's entry
C22_Step ==
    \A r \in Req :
        (~reqs[r].rate_headers /\ reqs'[r].rate_headers) =>
            reqs'[r].headers.remaining =
                Larger(settings.rate_limit_requests
                           - Entry(clients', reqs'[r].host).request_count, 0)

\* C22: with a positive limit every stored counter has
\* 1 <= request_count <= limit in every reachable state, so the Remaining
\* reported (limit - request_count) is never negative and is
\* max(limit - request_count, 0) on admitted and rejected responses alike.
C22_CountWithinLimit == []C22_State /\ [][C22_Step]_vars

\* The count at the limit, an admitted response with Remaining 0 and a
\* rejected one with Remaining 0
C22_Witness ==
    \E r, q \in Places :
        /\ r # q
        /\ reqs[r].host = reqs[q].host
        /\ Entry(clients, reqs[r].host).request_count = settings.rate_limit_requests
        /\ reqs[r].pc = "done" /\ reqs[r].called_next /\ reqs[r].rate_headers
        /\ reqs[r].headers.remaining = 0
        /\ Rejected(q) /\ reqs[q].headers.remaining = 0

\* A key is in the map exactly when a request of that client has been
\* admitted (the first request of a client always is)
C23_State ==
    \A h \in Hosts : h \in DOMAIN clients <=> admit_log[h] # << >>

\* No step removes a key, and a key is added only by the limiter's step for a
\* request of that client
C23_Step ==
    /\ DOMAIN clients \subseteq DOMAIN clients'
    /\ \A h \in DOMAIN clients' \ DOMAIN clients :
          \E r \in Req :
              /\ reqs[r].pc = "rate_limiting"
              /\ reqs[r].host = h
              /\ reqs'[r].checked
              /\ reqs'[r].called_next

\* C23: an entry is created by the first request seen from a client and is
\* never removed: a key present in clients is present in every later state.
C23_EntriesPersist == []C23_State /\ [][C23_Step]_vars

\* The entry is still there after a rejection, with no request open and more
\* than RATE_LIMIT_DURATION after its last update
C23_Witness ==
    /\ "10.0.0.1" \in DOMAIN clients
    /\ clock - clients["10.0.0.1"].last_request > RATE_LIMIT_DURATION
    /\ reqs[1].host = "10.0.0.1" /\ Rejected(1) /\ reqs[1].pc = "done"
    /\ reqs[2].pc = "idle"

\* C24 (as stated): the headers of an admitted response report the count this
\* request's own increment produced, whatever other requests of the client
\* did while its handler ran.
C24_HeadersOfOwnAdmission ==
    \A r \in Req :
        (reqs[r].pc = "done" /\ reqs[r].called_next /\ reqs[r].rate_headers) =>
            reqs[r].headers.remaining =
                settings.rate_limit_requests - reqs[r].stamped.request_count

\* C24 (amended): the headers of an admitted response are computed when the
\* response comes back through the limiter, from the client's entry as it is
\* then: Remaining is the limit minus the count stored at that moment.  It is
\* the count of the request's own increment if the entry is still the one the
\* request left, which rejected requests do not change but admissions and
\* resets of other requests of the client do.
C24_HeadersOfCurrentEntry ==
    [][\A r \in Req :
          (reqs[r].pc = "router" /\ reqs'[r].pc = "done" /\ reqs'[r].rate_headers) =>
              /\ reqs[r].called_next /\ reqs[r].checked
              /\ reqs'[r].headers.remaining =
                     settings.rate_limit_requests
                         - clients[reqs[r].host].request_count
              /\ reqs'[r].headers.reset =
                     NextMinute(clients[reqs[r].host].last_request)
              /\ clients[reqs[r].host] = reqs[r].stamped =>
                     reqs'[r].headers.remaining =
                         settings.rate_limit_requests
                             - reqs[r].stamped.request_count]_vars

\* limit 2: r was admitted with count 1 and q with count 2 while r's handler
\* ran; r's response reports Remaining 0
C24_Witness ==
    \E r, q \in Places :
        /\ r # q
        /\ settings.rate_limit_requests = 2
        /\ reqs[r].host = reqs[q].host
        /\ reqs[r].pc = "done" /\ reqs[r].called_next
        /\ reqs[r].stamped.request_count = 1
        /\ reqs[q].called_next /\ reqs[q].seen = reqs[r].stamped
        /\ reqs[q].stamped.request_count = 2
        /\ reqs[r].headers.remaining = 0

\* C26: the limiter's step for a request of client A leaves the entry of
\* every other client as it was, whether A's request is admitted or rejected,
\* and rejects A's request exactly when A's own entry is inside its window
\* with the count at the limit.
C26_ClientsIsolated ==
    [][\A r \in Req :
          (reqs[r].pc = "rate_limiting" /\ reqs'[r].checked) =>
              LET A == reqs[r].host
                  own == Entry(clients, A)
              IN /\ \A B \in Hosts \ {A} :
                       /\ B \in DOMAIN clients <=> B \in DOMAIN clients'
                       /\ Entry(clients', B) = Entry(clients, B)
                 /\ (reqs'[r].status = HTTP_429_TOO_MANY_REQUESTS) <=>
                        /\ clock - own.last_request <= RATE_LIMIT_DURATION
                        /\ own.request_count >= settings.rate_limit_requests
                 /\ reqs'[r].called_next <=>
                        reqs'[r].status # HTTP_429_TOO_MANY_REQUESTS]_vars

\* limit 2: client A is rejected at its limit while client B, counted
\* separately and admitted once in between, stands at 1
C26_Witness ==
    /\ settings.rate_limit_requests = 2
    /\ reqs[1].host = "10.0.0.1"
    /\ Rejected(1)
    /\ DOMAIN clients = Hosts
    /\ clients["10.0.0.1"].request_count = 2
    /\ clients["10.0.0.2"].request_count = 1
    /\ clients["10.0.0.2"].last_request >= clients["10.0.0.1"].last_request

\* The limiter's step for a request: a rejection leaves clients as it was (so
\* the stored time stays that of the last admitted request), and a request
\* checked more than RATE_LIMIT_DURATION after the stored time is admitted
\* with the count reset to 1
C25_Step ==
    \A r \in Req :
        (reqs[r].pc = "rate_limiting" /\ reqs'[r].checked) =>
            /\ reqs'[r].status = HTTP_429_TOO_MANY_REQUESTS => clients' = clients
            /\ clock - Entry(clients, reqs[r].host).last_request
                   > RATE_LIMIT_DURATION =>
                  /\ reqs'[r].called_next
                  /\ Entry(clients', reqs[r].host).request_count = 1

\* A request of the client has just been admitted
C25_Admitted ==
    \E r \in Req :
        reqs[r].pc = "router" /\ reqs[r].checked /\ reqs[r].called_next

\* C25: rejected requests do not move the stored time, so a request that
\* comes more than RATE_LIMIT_DURATION after the client's last admitted one is
\* admitted with the count reset to 1 however many rejections lie in between;
\* a client that keeps sending while time passes is admitted again and again.
C25_NoStarvation ==
    /\ [][C25_Step]_vars
    /\ []<>(~settings.rate_limiting \/ C25_Admitted)

\* The client is at its limit and was just rejected, later than the stored
\* time of its last admitted request
C25_Witness ==
    /\ settings.rate_limiting
    /\ Rejected(1)
    /\ clients["10.0.0.1"].request_count = settings.rate_limit_requests
    /\ clock - clients["10.0.0.1"].last_request = RATE_LIMIT_DURATION
    /\ admit_log["10.0.0.1"] # << >>

====
